---- MODULE Spec2Model ----
(***************************************************************************)
(* Vote ledger of the Kgotla forum: POST /api/votes (server/routes.ts)     *)
(* and DatabaseStorage.getVote / createVote / updateVote / deleteVote      *)
(* (server/storage.ts) over the votes, posts and comments tables           *)
(* (shared/schema.ts).                                                     *)
(***************************************************************************)
EXTENDS Integers, FiniteSets, Sequences, TLC

\* ------------------------------------------------------------------------
\* Bounds and fixed populations
\* ------------------------------------------------------------------------

\* Largest value the votes.id serial hands out in the model.
MaxVoteId == 3

\* Rows of the users table (voters), of the posts table and of the
\* comments table.  Post 1 and comment 1 share the numeric id.
Users == {"u1", "u2"}
PostIds == {1, 2}
CommentIds == {1}

\* JS undefined / SQL NULL in an id position.
Nil == -1

\* The two directions the client sends (voting-system.tsx).
VoteTypes == {"upvote", "downvote"}

\* Worker slots of the request/response server (concurrent requests).
Procs == {1, 2}

VARIABLES
    votes,       \* rows of the votes table
    posts,       \* posts.id -> [upvotes, downvotes]
    comments,    \* comments.id -> [upvotes, downvotes]
    nextVoteId,  \* next value of the votes.id serial
    last,        \* the request handled last, its arm, reply and pre-state
    prev,        \* the request before that, kept when it was the same
                 \* voter, target and direction as the last one
    inflight,    \* per worker: the request being handled, its position,
                 \* whether it began with no row of the voter on the target
                 \* (fresh), whether it overlapped another request, and the
                 \* id of the row its lookup returned (seen)
    ui,          \* per voting component on the page: what it displays,
                 \* whether its mutation is pending, its last toast
    commentRows,    \* rows of the comments table: [id, postId]
    commentCount,   \* posts.id -> posts.comment_count
    nextCommentId,  \* next value of the comments.id serial
    groupMembers,   \* rows of group_members: [groupId, userId]
    memberCount     \* groups.id -> groups.member_count

\* The comment and group tables, which no vote request reads or writes.
forumVars ==
    <<commentRows, commentCount, nextCommentId, groupMembers, memberCount>>

vars == <<votes, posts, comments, nextVoteId, last, prev, inflight, ui,
          forumVars>>

\* ------------------------------------------------------------------------
\* Tables
\* ------------------------------------------------------------------------

\* `undefined' result of a lookup / destructuring of an empty result.
NoVote == [id |-> Nil, userId |-> "", postId |-> Nil, commentId |-> Nil,
           type |-> ""]

\* upvotes / downvotes default to 0 (schema.ts).
ZeroCounters == [upvotes |-> 0, downvotes |-> 0]

\* The database as one value.
Db == [votes |-> votes, posts |-> posts, comments |-> comments,
       nextVoteId |-> nextVoteId]

\* JS truthiness of an optional numeric id: undefined, null and 0 are falsy.
Truthy(x) == x # Nil /\ x # 0

\* vote.type === "upvote" ? "upvotes" : "downvotes"
FieldOf(type) == IF type = "upvote" THEN "upvotes" ELSE "downvotes"

\* ------------------------------------------------------------------------
\* The counter statements
\* ------------------------------------------------------------------------

\* sql`${field} + 1` / sql`${field} - 1` with `field' a JS string.  A string
\* interpolated into the sql template is a bound value (storage.ts:621-622
\* relies on it for ILIKE ${`%${query}%`}); only a column object such as
\* ${posts.commentCount} (storage.ts:393) renders as a column.  The statement
\* sent is  SET "upvotes" = $1 + 1  with $1 = 'upvotes'; the parameter is
\* resolved to integer and the text 'upvotes' is not an integer, so the
\* statement is rejected and the promise rejects.  The stored value is not
\* read and not written.
SqlFieldArithCoerced(field, delta, row) == [ok |-> TRUE, value |-> 0 + delta]

SqlFieldArithDouble(field, delta, row) ==
    [ok |-> TRUE, value |-> row[field] + 2 * delta]

\* The operand read as the column of that name.
SqlFieldArithColumn(field, delta, row) ==
    [ok |-> TRUE, value |-> row[field] + delta]

SqlFieldArith(field, delta, row) == [ok |-> FALSE, value |-> row[field]]

\* The object literal passed to .set(): a later computed key replaces an
\* earlier equal one.  entries is the literal in source order, <<key, delta>>.
SetClause(entries) ==
    [f \in {entries[i][1] : i \in DOMAIN entries} |->
        entries[CHOOSE i \in DOMAIN entries :
                    /\ entries[i][1] = f
                    /\ \A j \in DOMAIN entries :
                           entries[j][1] = f => j <= i][2]]

\* db.update(table).set({...}).where(eq(table.id, id))
ExecCounterUpdate(table, id, entries) ==
    LET set == SetClause(entries)
        row == IF id \in DOMAIN table THEN table[id] ELSE ZeroCounters
        res == [f \in DOMAIN set |-> SqlFieldArith(f, set[f], row)]
    IN  IF \E f \in DOMAIN set : ~res[f].ok
        THEN [threw |-> TRUE, table |-> table]
        ELSE [threw |-> FALSE,
              table |-> IF id \in DOMAIN table
                        THEN [table EXCEPT ![id] =
                                 [g \in DOMAIN row |->
                                     IF g \in DOMAIN set THEN res[g].value
                                     ELSE row[g]]]
                        ELSE table]

DbUpdatePostCounters(d, id, entries) ==
    LET r == ExecCounterUpdate(d.posts, id, entries)
    IN  [threw |-> r.threw, db |-> [d EXCEPT !.posts = r.table]]

DbUpdateCommentCounters(d, id, entries) ==
    LET r == ExecCounterUpdate(d.comments, id, entries)
    IN  [threw |-> r.threw, db |-> [d EXCEPT !.comments = r.table]]

\* ------------------------------------------------------------------------
\* Statements on the votes table
\* ------------------------------------------------------------------------

\* db.insert(votes).values(vote).returning(): the serial assigns the id; the
\* foreign keys of schema.ts:117-119 reject a reference to a missing row.
DbInsertVote(d, vote) ==
    LET fkOk == /\ vote.userId \in Users
                /\ vote.postId = Nil \/ vote.postId \in DOMAIN d.posts
                /\ vote.commentId = Nil \/ vote.commentId \in DOMAIN d.comments
        row == [id |-> d.nextVoteId, userId |-> vote.userId,
                postId |-> vote.postId, commentId |-> vote.commentId,
                type |-> vote.type]
    IN  IF fkOk
        THEN [threw |-> FALSE, ret |-> row,
              db |-> [d EXCEPT !.votes = @ \cup {row}, !.nextVoteId = @ + 1]]
        ELSE [threw |-> TRUE, ret |-> NoVote,
              db |-> [d EXCEPT !.nextVoteId = @ + 1]]

\* db.select().from(votes).where(eq(votes.id, id)); id is the primary key.
DbSelectVoteById(d, id) ==
    IF \E v \in d.votes : v.id = id
    THEN CHOOSE v \in d.votes : v.id = id
    ELSE NoVote

\* db.delete(votes).where(eq(votes.id, id))
DbDeleteVote(d, id) == [d EXCEPT !.votes = {v \in @ : v.id # id}]

\* db.update(votes).set({ type }).where(eq(votes.id, id)).returning()
DbSetVoteType(d, id, type) ==
    [ret |-> IF \E v \in d.votes : v.id = id
             THEN [DbSelectVoteById(d, id) EXCEPT !.type = type]
             ELSE NoVote,
     db |-> [d EXCEPT !.votes =
                {IF v.id = id THEN [v EXCEPT !.type = type] ELSE v : v \in @}]]

\* ------------------------------------------------------------------------
\* DatabaseStorage
\* ------------------------------------------------------------------------

\* getVote: the rows the WHERE clause selects.  A falsy postId / commentId
\* adds no condition.
getVoteSwapped(d, userId, postId, commentId) ==
    {v \in d.votes :
        /\ v.userId = userId
        /\ Truthy(postId) => v.commentId = postId
        /\ Truthy(commentId) => v.postId = commentId}

getVoteMatches(d, userId, postId, commentId) ==
    {v \in d.votes :
        /\ v.userId = userId
        /\ Truthy(postId) => v.postId = postId
        /\ Truthy(commentId) => v.commentId = commentId}

\* const [vote] = ...: the first row of a SELECT without ORDER BY, so any of
\* the matching rows; undefined when there is none.
getVote(d, userId, postId, commentId) ==
    LET m == getVoteMatches(d, userId, postId, commentId)
    IN  IF m = {} THEN {NoVote} ELSE m

\* createVote run as one transaction: a rejected counter statement rolls the
\* inserted row back.
createVoteAtomic(d, vote) ==
    LET ins == DbInsertVote(d, vote)
        p == IF Truthy(vote.postId)
             THEN DbUpdatePostCounters(ins.db, vote.postId,
                                       <<<<FieldOf(vote.type), 1>>>>)
             ELSE [threw |-> FALSE, db |-> ins.db]
        c == IF Truthy(vote.commentId)
             THEN DbUpdateCommentCounters(p.db, vote.commentId,
                                          <<<<FieldOf(vote.type), 1>>>>)
             ELSE [threw |-> FALSE, db |-> p.db]
    IN  IF ins.threw \/ p.threw \/ c.threw
        THEN [threw |-> TRUE, ret |-> NoVote, db |-> d]
        ELSE [threw |-> FALSE, ret |-> ins.ret, db |-> c.db]

\* createVote: the row INSERT, then the counter statement of its target.
createVote(d, vote) ==
    LET ins == DbInsertVote(d, vote)
        p == IF Truthy(vote.postId)
             THEN DbUpdatePostCounters(ins.db, vote.postId,
                                       <<<<FieldOf(vote.type), 1>>>>)
             ELSE [threw |-> FALSE, db |-> ins.db]
        c == IF Truthy(vote.commentId)
             THEN DbUpdateCommentCounters(p.db, vote.commentId,
                                          <<<<FieldOf(vote.type), 1>>>>)
             ELSE [threw |-> FALSE, db |-> p.db]
    IN  IF ins.threw THEN [threw |-> TRUE, ret |-> NoVote, db |-> ins.db]
        ELSE IF p.threw THEN [threw |-> TRUE, ret |-> NoVote, db |-> p.db]
        ELSE IF c.threw THEN [threw |-> TRUE, ret |-> NoVote, db |-> c.db]
        ELSE [threw |-> FALSE, ret |-> ins.ret, db |-> c.db]

updateVote(d, id, type) ==
    LET vote == DbSelectVoteById(d, id)
        entries == <<<<FieldOf(vote.type), -1>>, <<FieldOf(type), 1>>>>
        p == IF vote # NoVote /\ Truthy(vote.postId)
             THEN DbUpdatePostCounters(d, vote.postId, entries)
             ELSE [threw |-> FALSE, db |-> d]
        c == IF vote # NoVote /\ Truthy(vote.commentId)
             THEN DbUpdateCommentCounters(p.db, vote.commentId, entries)
             ELSE [threw |-> FALSE, db |-> p.db]
        u == DbSetVoteType(c.db, id, type)
    IN  IF p.threw THEN [threw |-> TRUE, ret |-> NoVote, db |-> p.db]
        ELSE IF c.threw THEN [threw |-> TRUE, ret |-> NoVote, db |-> c.db]
        ELSE [threw |-> FALSE, ret |-> u.ret, db |-> u.db]

deleteVote(d, id) ==
    LET vote == DbSelectVoteById(d, id)
        del == DbDeleteVote(d, id)
        p == IF Truthy(vote.postId)
             THEN DbUpdatePostCounters(del, vote.postId,
                                       <<<<FieldOf(vote.type), -1>>>>)
             ELSE [threw |-> FALSE, db |-> del]
        c == IF Truthy(vote.commentId)
             THEN DbUpdateCommentCounters(p.db, vote.commentId,
                                          <<<<FieldOf(vote.type), -1>>>>)
             ELSE [threw |-> FALSE, db |-> p.db]
    IN  IF vote = NoVote THEN [threw |-> FALSE, db |-> d]
        ELSE IF p.threw THEN [threw |-> TRUE, db |-> p.db]
        ELSE [threw |-> c.threw, db |-> c.db]

\* ------------------------------------------------------------------------
\* POST /api/votes
\* ------------------------------------------------------------------------

\* A request body without a type field (JS undefined in the type position).
NoType == "(undefined)"

\* insertVoteSchema: type is a required string; the ids are optional
\* integers.
insertVoteSchemaOk(userId, postId, commentId, type) ==
    /\ type # NoType
    /\ postId \in Int
    /\ commentId \in Int

\* Replies of the handler.
RespRemoved == [status |-> 200, body |-> "Vote removed", type |-> ""]
RespVote(v) == [status |-> 200, body |-> "vote", type |-> v.type]
RespInvalid == [status |-> 400, body |-> "Invalid vote data", type |-> ""]
RespFailed  == [status |-> 500, body |-> "Failed to create vote", type |-> ""]
RespNone    == [status |-> 0, body |-> "", type |-> ""]

\* The handler body after the authentication check, for one outcome
\* `existing' of the lookup.
HandleVote(d, userId, postId, commentId, type, existing) ==
    IF existing # NoVote
    THEN IF existing.type = type
         THEN LET r == deleteVote(d, existing.id)
              IN  [arm |-> "remove", db |-> r.db,
                   resp |-> IF r.threw THEN RespFailed ELSE RespRemoved]
         ELSE LET r == updateVote(d, existing.id, type)
              IN  [arm |-> "switch", db |-> r.db,
                   resp |-> IF r.threw THEN RespFailed ELSE RespVote(r.ret)]
    ELSE IF ~insertVoteSchemaOk(userId, postId, commentId, type)
         THEN [arm |-> "reject", db |-> d, resp |-> RespInvalid]
         ELSE LET r == createVote(d, [userId |-> userId, postId |-> postId,
                                      commentId |-> commentId, type |-> type])
              IN  [arm |-> "create", db |-> r.db,
                   resp |-> IF r.threw THEN RespFailed ELSE RespVote(r.ret)]

NoRequest ==
    [userId |-> "", postId |-> Nil, commentId |-> Nil, type |-> "",
     arm |-> "", resp |-> RespNone,
     votes0 |-> {}, posts0 |-> [p \in PostIds |-> ZeroCounters],
     comments0 |-> [c \in CommentIds |-> ZeroCounters]]

\* A worker with no request: every field at its empty value.
Idle == [pc |-> "idle", userId |-> "", postId |-> Nil, commentId |-> Nil,
         type |-> "", existing |-> NoVote, vote |-> NoVote,
         pending |-> <<>>, after |-> "", resp |-> RespNone,
         fresh |-> FALSE, overlap |-> FALSE, seen |-> Nil]

\* No voting component is rendered.
NoComponent ==
    [kind |-> "", currentVote |-> "", upvotes |-> 0, downvotes |-> 0,
     isPending |-> FALSE, toast |-> "", outcome |-> "",
     currentVote0 |-> "", upvotes0 |-> 0, downvotes0 |-> 0]

SameRequest(r, userId, postId, commentId, type) ==
    /\ r.userId = userId
    /\ r.postId = postId
    /\ r.commentId = commentId
    /\ r.type = type

\* One whole request, handled with no other request in progress.
CastVote(userId, postId, commentId, type) ==
    /\ \A w \in Procs : inflight[w] = Idle
    /\ \E existing \in getVote(Db, userId, postId, commentId) :
          LET h == HandleVote(Db, userId, postId, commentId, type, existing)
          IN  /\ h.db.nextVoteId <= MaxVoteId + 1
              /\ votes' = h.db.votes
              /\ posts' = h.db.posts
              /\ comments' = h.db.comments
              /\ nextVoteId' = h.db.nextVoteId
              /\ last' = [userId |-> userId, postId |-> postId,
                          commentId |-> commentId, type |-> type,
                          arm |-> h.arm, resp |-> h.resp,
                          votes0 |-> votes, posts0 |-> posts,
                          comments0 |-> comments]
              /\ prev' = IF SameRequest(last, userId, postId, commentId, type)
                          THEN last ELSE NoRequest
    /\ UNCHANGED <<inflight, ui, forumVars>>

\* The client sends { postId, type } for a post and { commentId, type } for
\* a comment (voting-system.tsx:41-43).
VotePost == \E u \in Users, p \in PostIds, t \in VoteTypes :
                CastVote(u, p, Nil, t)

VoteComment == \E u \in Users, c \in CommentIds, t \in VoteTypes :
                   CastVote(u, Nil, c, t)

\* The one group of the model and the users who may join it.
GroupIds == {1}

\* Comment 1 is a comment on post 1, counted in that post's comment_count;
\* the group has no member and member_count at its default 0.
ForumInit ==
    /\ commentRows = {[id |-> c, postId |-> 1] : c \in CommentIds}
    /\ commentCount = [p \in PostIds |-> IF p = 1 THEN Cardinality(CommentIds)
                                         ELSE 0]
    /\ nextCommentId = Cardinality(CommentIds) + 1
    /\ groupMembers = {}
    /\ memberCount = [g \in GroupIds |-> 0]

Init ==
    /\ votes = {}
    /\ posts = [p \in PostIds |-> ZeroCounters]
    /\ comments = [c \in CommentIds |-> ZeroCounters]
    /\ nextVoteId = 1
    /\ last = NoRequest
    /\ prev = NoRequest
    /\ inflight = [w \in Procs |-> Idle]
    /\ ui = [w \in Procs |-> NoComponent]
    /\ ForumInit

Next == VotePost \/ VoteComment

Spec == Init /\ [][Next]_vars

\* ------------------------------------------------------------------------
\* Properties of requests handled one at a time
\* ------------------------------------------------------------------------

\* Rows of a table of votes that reference a target with a direction.
PostRows(vs, p, t) == {v \in vs : v.postId = p /\ v.type = t}
CommentRows(vs, c, t) == {v \in vs : v.commentId = c /\ v.type = t}

\* Rows of voter u on the target a request names.
RowsOf(vs, u, postId, commentId) ==
    {v \in vs : v.userId = u /\ v.postId = postId /\ v.commentId = commentId}

\* Counters of the target a request names, in given tables.
TargetCounters(ps, cs, postId, commentId) ==
    IF Truthy(postId) THEN ps[postId] ELSE cs[commentId]

Opposite(t) == IF t = "upvote" THEN "downvote" ELSE "upvote"

Handled == last.arm # ""
LastBefore == TargetCounters(last.posts0, last.comments0,
                             last.postId, last.commentId)
LastAfter == TargetCounters(posts, comments, last.postId, last.commentId)
LastRowsBefore == RowsOf(last.votes0, last.userId, last.postId, last.commentId)

\* C1: every target's upvotes counter equals the number of Vote rows that
\* reference it with type upvote, and its downvotes counter the number of
\* rows with type downvote.
C1_CountersEqualRowCounts ==
    /\ \A p \in PostIds :
          /\ posts[p].upvotes = Cardinality(PostRows(votes, p, "upvote"))
          /\ posts[p].downvotes = Cardinality(PostRows(votes, p, "downvote"))
    /\ \A c \in CommentIds :
          /\ comments[c].upvotes = Cardinality(CommentRows(votes, c, "upvote"))
          /\ comments[c].downvotes =
                 Cardinality(CommentRows(votes, c, "downvote"))

C4_AddArm ==
    (Handled /\ LastRowsBefore = {}) =>
        /\ \E v \in votes :
              /\ v \notin last.votes0
              /\ votes = last.votes0 \cup {v}
              /\ v.userId = last.userId
              /\ v.postId = last.postId
              /\ v.commentId = last.commentId
              /\ v.type = last.type
              /\ last.resp = RespVote(v)
        /\ LastAfter[FieldOf(last.type)] = LastBefore[FieldOf(last.type)] + 1
        /\ LastAfter[FieldOf(Opposite(last.type))] =
               LastBefore[FieldOf(Opposite(last.type))]

\* C5: a request by V on T with direction D, when the row of (V, T) already
\* has direction D, deletes that row, decreases T's counter for D by exactly
\* 1, leaves the other counter unchanged and is reported as removed.
C5_RemoveArm ==
    (Handled /\ \E v \in LastRowsBefore : v.type = last.type) =>
        /\ votes = last.votes0 \ LastRowsBefore
        /\ LastAfter[FieldOf(last.type)] = LastBefore[FieldOf(last.type)] - 1
        /\ LastAfter[FieldOf(Opposite(last.type))] =
               LastBefore[FieldOf(Opposite(last.type))]
        /\ last.resp = RespRemoved

\* C6: a request by V on T with direction D, when the row of (V, T) has the
\* opposite direction, keeps that single row and sets its direction to D,
\* decreases the old direction's counter by exactly 1, increases D's counter
\* by exactly 1 and is reported as switched with direction D.
C6_SwitchArm ==
    (Handled /\ \E v \in LastRowsBefore : v.type = Opposite(last.type)) =>
        /\ votes = (last.votes0 \ LastRowsBefore)
                       \cup {[v EXCEPT !.type = last.type] :
                                v \in LastRowsBefore}
        /\ Cardinality(RowsOf(votes, last.userId, last.postId,
                              last.commentId)) = 1
        /\ LastAfter[FieldOf(last.type)] = LastBefore[FieldOf(last.type)] + 1
        /\ LastAfter[FieldOf(Opposite(last.type))] =
               LastBefore[FieldOf(Opposite(last.type))] - 1
        /\ last.resp.status = 200
        /\ last.resp.body = "vote"
        /\ last.resp.type = last.type

\* C7: from a state in which V has no vote on T, casting D twice in a row
\* returns added and then removed, and afterwards the counters of T and the
\* set of Vote rows are as before the first call.
C7_TwiceIsAddedThenRemoved ==
    (/\ Handled
     /\ prev.arm # ""
     /\ RowsOf(prev.votes0, prev.userId, prev.postId, prev.commentId) = {}) =>
        /\ prev.resp.status = 200
        /\ prev.resp.body = "vote"
        /\ prev.resp.type = prev.type
        /\ last.resp = RespRemoved
        /\ votes = prev.votes0
        /\ posts = prev.posts0
        /\ comments = prev.comments0

\* C8: when V already holds a vote on T, casting the opposite direction
\* leaves upvotes + downvotes of T unchanged while each of the two counters
\* changes by exactly 1, in opposite senses.
C8_SwitchConservesTotal ==
    (Handled /\ \E v \in LastRowsBefore : v.type = Opposite(last.type)) =>
        /\ LastAfter.upvotes + LastAfter.downvotes =
               LastBefore.upvotes + LastBefore.downvotes
        /\ LastAfter.upvotes - LastBefore.upvotes \in {-1, 1}
        /\ LastAfter.downvotes - LastBefore.downvotes =
               LastBefore.upvotes - LastAfter.upvotes

\* C9: neither the upvotes nor the downvotes counter of any post or comment
\* is ever negative.
C9_CountersNonNegative ==
    /\ \A p \in PostIds : posts[p].upvotes >= 0 /\ posts[p].downvotes >= 0
    /\ \A c \in CommentIds :
          comments[c].upvotes >= 0 /\ comments[c].downvotes >= 0

\* A vote was added and then taken back: the remove arm has run on a row
\* and no row is left on that target.
C9_Witness ==
    /\ last.arm = "remove"
    /\ LastRowsBefore # {}
    /\ RowsOf(votes, last.userId, last.postId, last.commentId) = {}
    /\ LastAfter.upvotes >= 0
    /\ LastAfter.downvotes >= 0

CounterStatements(v, entries) ==
    (IF Truthy(v.postId)
     THEN <<[table |-> "posts", id |-> v.postId, entries |-> entries]>>
     ELSE <<>>)
    \o
    (IF Truthy(v.commentId)
     THEN <<[table |-> "comments", id |-> v.commentId, entries |-> entries]>>
     ELSE <<>>)

Busy(w) == inflight[w].pc \notin {"idle", "done"}

SetDb(d) ==
    /\ votes' = d.votes
    /\ posts' = d.posts
    /\ comments' = d.comments
    /\ nextVoteId' = d.nextVoteId

\* The handler has replied: only the request and the reply are kept.
Replied(r, resp) ==
    [r EXCEPT !.pc = "done", !.resp = resp, !.pending = <<>>,
              !.existing = NoVote, !.vote = NoVote, !.after = ""]

\* The workers once worker w has taken the request of voter u.
Arrived(w, u, postId, commentId, t) ==
    [x \in Procs |->
        IF x = w
        THEN [Idle EXCEPT
                !.pc = "lookup", !.userId = u, !.postId = postId,
                !.commentId = commentId, !.type = t,
                !.fresh = (RowsOf(votes, u, postId, commentId) = {}),
                !.overlap = \E y \in Procs \ {w} : Busy(y)]
        ELSE IF Busy(x) THEN [inflight[x] EXCEPT !.overlap = TRUE]
        ELSE inflight[x]]

\* An authenticated request reaches the handler (routes.ts:185-190).
Begin(w) ==
    /\ ~Busy(w)
    /\ nextVoteId <= MaxVoteId
    /\ \E u \in Users, t \in VoteTypes,
          tgt \in ({<<p, Nil>> : p \in PostIds}
                       \cup {<<Nil, c>> : c \in CommentIds}) :
          inflight' = Arrived(w, u, tgt[1], tgt[2], t)
    /\ UNCHANGED <<votes, posts, comments, nextVoteId, last, prev, ui,
                   forumVars>>

\* await storage.getVote(...) and the branch on its result
\* (routes.ts:192-219).
Lookup(w) ==
    LET r == inflight[w] IN
    /\ r.pc = "lookup"
    /\ \E existing \in getVote(Db, r.userId, r.postId, r.commentId) :
          inflight' =
              [inflight EXCEPT ![w] =
                  IF existing # NoVote
                  THEN [r EXCEPT !.existing = existing, !.pc = "select",
                                 !.seen = existing.id,
                                 !.after = IF existing.type = r.type
                                           THEN "delete" ELSE "update"]
                  ELSE IF ~insertVoteSchemaOk(r.userId, r.postId,
                                              r.commentId, r.type)
                       THEN Replied(r, RespInvalid)
                       ELSE [r EXCEPT !.pc = "insert"]]
    /\ UNCHANGED <<votes, posts, comments, nextVoteId, last, prev, ui,
                   forumVars>>

\* createVote: the INSERT (storage.ts:445).
InsertRow(w) ==
    LET r == inflight[w]
        ins == DbInsertVote(Db, [userId |-> r.userId, postId |-> r.postId,
                                 commentId |-> r.commentId, type |-> r.type])
        todo == CounterStatements(ins.ret, <<<<FieldOf(r.type), 1>>>>)
    IN  /\ r.pc = "insert"
        /\ SetDb(ins.db)
        /\ inflight' =
              [inflight EXCEPT ![w] =
                  IF ins.threw
                  THEN Replied(r, RespFailed)
                  ELSE IF todo = <<>>
                  THEN Replied(r, RespVote(ins.ret))
                  ELSE [r EXCEPT !.pc = "count", !.vote = ins.ret,
                                 !.pending = todo, !.after = "reply_vote"]]
        /\ UNCHANGED <<last, prev, ui, forumVars>>

\* updateVote / deleteVote: the SELECT by id (storage.ts:468, 509).
SelectById(w) ==
    LET r == inflight[w]
        vote == DbSelectVoteById(Db, r.existing.id)
        todo == CounterStatements(vote, <<<<FieldOf(vote.type), -1>>,
                                          <<FieldOf(r.type), 1>>>>)
    IN  /\ r.pc = "select"
        /\ inflight' =
              [inflight EXCEPT ![w] =
                  IF r.after = "delete"
                  THEN IF vote = NoVote
                       THEN Replied(r, RespRemoved)
                       ELSE [r EXCEPT !.pc = "delete", !.vote = vote]
                  ELSE IF vote = NoVote \/ todo = <<>>
                       THEN [r EXCEPT !.pc = "settype", !.vote = vote]
                       ELSE [r EXCEPT !.pc = "count", !.vote = vote,
                                      !.pending = todo, !.after = "settype"]]
        /\ UNCHANGED <<votes, posts, comments, nextVoteId, last, prev, ui,
                       forumVars>>

\* deleteVote: the DELETE (storage.ts:512).
DeleteRow(w) ==
    LET r == inflight[w]
        todo == CounterStatements(r.vote, <<<<FieldOf(r.vote.type), -1>>>>)
    IN  /\ r.pc = "delete"
        /\ SetDb(DbDeleteVote(Db, r.existing.id))
        /\ inflight' =
              [inflight EXCEPT ![w] =
                  IF todo = <<>>
                  THEN Replied(r, RespRemoved)
                  ELSE [r EXCEPT !.pc = "count", !.pending = todo,
                                 !.after = "reply_removed"]]
        /\ UNCHANGED <<last, prev, ui, forumVars>>

\* One counter UPDATE of createVote / updateVote / deleteVote.  A rejected
\* statement propagates to the handler's catch (routes.ts:223-226).
CounterStep(w) ==
    LET r == inflight[w]
        st == Head(r.pending)
        res == IF st.table = "posts"
               THEN DbUpdatePostCounters(Db, st.id, st.entries)
               ELSE DbUpdateCommentCounters(Db, st.id, st.entries)
        rest == Tail(r.pending)
    IN  /\ r.pc = "count"
        /\ SetDb(res.db)
        /\ inflight' =
              [inflight EXCEPT ![w] =
                  IF res.threw
                  THEN Replied(r, RespFailed)
                  ELSE IF rest # <<>> THEN [r EXCEPT !.pending = rest]
                  ELSE IF r.after = "settype"
                  THEN [r EXCEPT !.pc = "settype", !.pending = <<>>]
                  ELSE Replied(r, IF r.after = "reply_vote"
                                  THEN RespVote(r.vote) ELSE RespRemoved)]
        /\ UNCHANGED <<last, prev, ui, forumVars>>

\* updateVote: the UPDATE of the row's type (storage.ts:499-503).
SetType(w) ==
    LET r == inflight[w]
        u == DbSetVoteType(Db, r.existing.id, r.type)
    IN  /\ r.pc = "settype"
        /\ SetDb(u.db)
        /\ inflight' = [inflight EXCEPT ![w] = Replied(r, RespVote(u.ret))]
        /\ UNCHANGED <<last, prev, ui, forumVars>>

NextConc ==
    \E w \in Procs :
        \/ Begin(w)
        \/ Lookup(w)
        \/ InsertRow(w)
        \/ SelectById(w)
        \/ DeleteRow(w)
        \/ CounterStep(w)
        \/ SetType(w)

SpecConc == Init /\ [][NextConc]_vars

\* Both workers have finished a request of the same voter on the same
\* target with the same direction, each began while that voter had no row
\* on the target, and the two overlapped.
BothDoneSame(t) ==
    /\ \A w \in Procs :
          /\ inflight[w].pc = "done"
          /\ inflight[w].type = t
          /\ inflight[w].fresh
          /\ inflight[w].overlap
    /\ \A w, x \in Procs :
          /\ inflight[w].userId = inflight[x].userId
          /\ inflight[w].postId = inflight[x].postId
          /\ inflight[w].commentId = inflight[x].commentId

\* C3: two simultaneous upvote requests by the same voter V on the same
\* target T that has no vote from V end, under every interleaving, with
\* exactly one Vote row for (V, T) and with T's upvote counter raised by at
\* most 1.
C3_SimultaneousUpvotesOneRow ==
    BothDoneSame("upvote") =>
        \A w \in Procs :
            LET r == inflight[w] IN
            /\ Cardinality(RowsOf(votes, r.userId, r.postId, r.commentId)) = 1
            /\ TargetCounters(posts, comments, r.postId, r.commentId).upvotes
                   <= Cardinality({v \in votes :
                                      /\ v.postId = r.postId
                                      /\ v.commentId = r.commentId
                                      /\ v.type = "upvote"
                                      /\ v.userId # r.userId}) + 1

\* ------------------------------------------------------------------------
\* POST /api/votes with any request: token, body ids and type as received
\* ------------------------------------------------------------------------

\* Authorization headers: none, a bearer token that Firebase does not
\* verify, and the ID tokens of the two users.
NoToken == ""
BadToken == "bad"
ValidTokens == {"tok_u1", "tok_u2"}
Tokens == {NoToken, BadToken} \cup ValidTokens

\* decodedToken.uid / user.localId of a verified token.
TokenUid(token) == IF token = "tok_u1" THEN "u1" ELSE "u2"

\* verifyFirebaseToken: 401 without next() unless the token verifies; on
\* success req.firebaseUser.uid is the verified uid.
verifyFirebaseTokenUnverified(token) ==
    IF token = NoToken
    THEN [next |-> FALSE, uid |-> ""]
    ELSE [next |-> TRUE,
          uid |-> IF token \in ValidTokens THEN TokenUid(token) ELSE "u1"]

verifyFirebaseToken(token) ==
    IF token \in ValidTokens
    THEN [next |-> TRUE, uid |-> TokenUid(token)]
    ELSE [next |-> FALSE, uid |-> ""]

RespUnauthorized == [status |-> 401, body |-> "Unauthorized", type |-> ""]

\* An id that no row of posts or comments has.
MissingId == 9

\* A direction outside the enumeration.
OtherType == "sideways"

\* Targets a well-formed body names: <<postId, commentId>>.
GoodTargets == {<<1, Nil>>, <<Nil, 1>>}

\* The requests sent: <<token, postId, commentId, type>>.  Well-formed ones
\* by both users, and ones that deviate in one respect: no or an unverified
\* token, an id of no row, a type outside the enumeration or absent, a body
\* with neither id.
RequestInputs ==
    {<<k, g[1], g[2], t>> : k \in ValidTokens, g \in GoodTargets,
                            t \in VoteTypes}
    \cup {<<k, g[1], g[2], "upvote">> : k \in {NoToken, BadToken},
                                        g \in GoodTargets}
    \cup {<<k, g[1], g[2], "upvote">> :
             k \in ValidTokens, g \in {<<MissingId, Nil>>, <<Nil, MissingId>>}}
    \cup {<<k, 1, Nil, t>> : k \in ValidTokens, t \in {OtherType, NoType}}
    \cup {<<k, Nil, Nil, t>> : k \in ValidTokens, t \in VoteTypes}

\* Keys of the JSON body of a reply: the vote row, { message }, or the
\* error objects.
BodyFields(resp) ==
    IF resp.body = "vote"
    THEN {"id", "userId", "postId", "commentId", "type", "createdAt"}
    ELSE IF resp.status = 400 THEN {"message", "errors"}
    ELSE IF resp.status = 0 THEN {}
    ELSE {"message"}

NoRequestIn ==
    [userId |-> "", postId |-> Nil, commentId |-> Nil, type |-> "",
     arm |-> "", resp |-> RespNone,
     votes0 |-> {}, posts0 |-> [p \in PostIds |-> ZeroCounters],
     comments0 |-> [c \in CommentIds |-> ZeroCounters],
     token |-> NoToken, looked |-> FALSE]

\* One whole request through the middleware and the handler, with no other
\* request in progress.
ApiVote(token, postId, commentId, type) ==
    LET auth == verifyFirebaseToken(token) IN
    /\ \A w \in Procs : inflight[w] = Idle
    /\ IF ~auth.next
       THEN /\ last' = [userId |-> "", postId |-> postId,
                        commentId |-> commentId, type |-> type,
                        arm |-> "unauthorized", resp |-> RespUnauthorized,
                        votes0 |-> votes, posts0 |-> posts,
                        comments0 |-> comments,
                        token |-> token, looked |-> FALSE]
            /\ UNCHANGED <<votes, posts, comments, nextVoteId>>
       ELSE \E existing \in getVote(Db, auth.uid, postId, commentId) :
               LET h == HandleVote(Db, auth.uid, postId, commentId, type,
                                   existing)
               IN  /\ h.db.nextVoteId <= MaxVoteId + 1
                   /\ votes' = h.db.votes
                   /\ posts' = h.db.posts
                   /\ comments' = h.db.comments
                   /\ nextVoteId' = h.db.nextVoteId
                   /\ last' = [userId |-> auth.uid, postId |-> postId,
                               commentId |-> commentId, type |-> type,
                               arm |-> h.arm, resp |-> h.resp,
                               votes0 |-> votes, posts0 |-> posts,
                               comments0 |-> comments,
                               token |-> token, looked |-> TRUE]
    /\ UNCHANGED <<prev, inflight, ui, forumVars>>

AnyVote == \E r \in RequestInputs : ApiVote(r[1], r[2], r[3], r[4])

InitIn ==
    /\ votes = {}
    /\ posts = [p \in PostIds |-> ZeroCounters]
    /\ comments = [c \in CommentIds |-> ZeroCounters]
    /\ nextVoteId = 1
    /\ last = NoRequestIn
    /\ prev = NoRequest
    /\ inflight = [w \in Procs |-> Idle]
    /\ ui = [w \in Procs |-> NoComponent]
    /\ ForumInit

NextIn == AnyVote

SpecIn == InitIn /\ [][NextIn]_vars

\* The last request carried a verified token.
Authenticated == Handled /\ last.token \in ValidTokens

\* Nothing in the votes table or in any counter differs from before the
\* last request.
LastChangedNothing ==
    /\ votes = last.votes0
    /\ posts = last.posts0
    /\ comments = last.comments0

\* C11: a vote request whose target id identifies no post or comment fails
\* with 404, creates no Vote row and leaves every counter unchanged.
C11_MissingTargetNotFound ==
    (Authenticated /\ (last.postId = MissingId \/ last.commentId = MissingId))
        => (last.resp.status = 404 /\ LastChangedNothing)

\* C12: a vote request whose direction is not one of the two enumerated
\* values is rejected with 400 before any lookup of an existing vote, also
\* when the voter holds a vote on the target, and changes no row and no
\* counter.
C12_InvalidDirectionRejected ==
    (Authenticated /\ last.type \notin VoteTypes)
        => (last.resp.status = 400 /\ ~last.looked /\ LastChangedNothing)

\* C13: a vote request that carries neither a post id nor a comment id is
\* rejected with 400 and changes no row and no counter.
C13_NoTargetRejected ==
    (Authenticated /\ last.postId = Nil /\ last.commentId = Nil)
        => (last.resp.status = 400 /\ LastChangedNothing)

\* C14: a vote request without a valid bearer token is answered with 401
\* and never reaches the ledger: no Vote row is read, created, changed or
\* deleted and no counter changes.
C14_UnauthenticatedRejected ==
    (Handled /\ last.token \notin ValidTokens)
        => (/\ last.resp.status = 401
            /\ ~last.looked
            /\ LastChangedNothing)

\* A request with an unverified token addressed a target on which a vote
\* row exists, and was answered 401.
C14_Witness ==
    /\ Handled
    /\ last.token = BadToken
    /\ last.resp.status = 401
    /\ \E v \in votes : v.postId = last.postId /\ v.commentId = last.commentId

\* C15: every successful vote request (HTTP 200) returns a status that is
\* one of added, removed or switched, together with the target's upvote and
\* downvote counters as they are after the request.
C15_SuccessReplyShape ==
    (Handled /\ last.resp.status = 200)
        => (/\ "status" \in BodyFields(last.resp)
            /\ {"upvoteCount", "upvotes"} \cap BodyFields(last.resp) # {}
            /\ {"downvoteCount", "downvotes"} \cap BodyFields(last.resp) # {})

\* ------------------------------------------------------------------------
\* PUT /api/posts/:id
\* ------------------------------------------------------------------------

\* posts.authorId of the two posts.
PostAuthor == [p \in PostIds |-> IF p = 1 THEN "u1" ELSE "u2"]

\* A counter value a request body can carry.
BodyCount == 5

\* Request bodies, as the columns of posts they name that the model keeps:
\* none of them, or upvotes.
PostBodies == {<<>>, [f \in {"upvotes"} |-> BodyCount]}

\* getPostById: the row, when there is one.
PostExists(d, id) == id \in DOMAIN d.posts

\* updatePost: .set({ ...updates, updatedAt: new Date() }) writes every
\* column the body names.
updatePost(d, id, updates) ==
    [d EXCEPT !.posts =
        [p \in DOMAIN @ |->
            IF p = id
            THEN [g \in DOMAIN @[p] |->
                     IF g \in DOMAIN updates THEN updates[g] ELSE @[p][g]]
            ELSE @[p]]]

RespPost == [status |-> 200, body |-> "post", type |-> ""]
RespNotFound == [status |-> 404, body |-> "Post not found", type |-> ""]
RespForbidden ==
    [status |-> 403, body |-> "Not authorized to edit this post", type |-> ""]

\* The handler of PUT /api/posts/:id behind verifyFirebaseToken.
HandlePutPost(d, token, id, body) ==
    LET auth == verifyFirebaseToken(token) IN
    IF ~auth.next
    THEN [arm |-> "put-unauthorized", db |-> d, resp |-> RespUnauthorized]
    ELSE IF ~PostExists(d, id)
    THEN [arm |-> "put-notfound", db |-> d, resp |-> RespNotFound]
    ELSE IF PostAuthor[id] # auth.uid
    THEN [arm |-> "put-forbidden", db |-> d, resp |-> RespForbidden]
    ELSE [arm |-> "put-updated", db |-> updatePost(d, id, body),
          resp |-> RespPost]

PutPost ==
    \E token \in ValidTokens \cup {BadToken}, id \in {1, MissingId},
       body \in PostBodies :
        LET h == HandlePutPost(Db, token, id, body) IN
        /\ \A w \in Procs : inflight[w] = Idle
        /\ posts' = h.db.posts
        /\ last' = [userId |-> verifyFirebaseToken(token).uid,
                    postId |-> id, commentId |-> Nil, type |-> "",
                    arm |-> h.arm, resp |-> h.resp,
                    votes0 |-> votes, posts0 |-> posts,
                    comments0 |-> comments]
        /\ prev' = NoRequest
        /\ UNCHANGED <<votes, comments, nextVoteId, inflight, ui, forumVars>>

NextPosts == VotePost \/ VoteComment \/ PutPost

SpecPosts == Init /\ [][NextPosts]_vars

VoteArms == {"create", "remove", "switch", "reject"}

\* C16: the vote operations are the only writers of the upvotes and
\* downvotes counters: no other request, in particular PUT /api/posts/:id
\* by the post's author, changes the counters of any post or comment.
C16_OnlyVotesWriteCounters ==
    (Handled /\ last.arm \notin VoteArms)
        => (posts = last.posts0 /\ comments = last.comments0)

\* ------------------------------------------------------------------------
\* Properties of two overlapping requests
\* ------------------------------------------------------------------------

\* Both workers have replied and their requests overlapped.
BothDoneOverlapped ==
    \A w \in Procs : inflight[w].pc = "done" /\ inflight[w].overlap

SameVoterAndTarget ==
    \A w, x \in Procs :
        /\ inflight[w].userId = inflight[x].userId
        /\ inflight[w].postId = inflight[x].postId
        /\ inflight[w].commentId = inflight[x].commentId

\* The counters of the target of worker w's request equal the numbers of
\* rows on it, per direction.
CountersMatchRowsOf(w) ==
    LET r == inflight[w]
        cnt == TargetCounters(posts, comments, r.postId, r.commentId)
        rows(t) == {v \in votes : /\ v.postId = r.postId
                                  /\ v.commentId = r.commentId
                                  /\ v.type = t}
    IN  /\ cnt.upvotes = Cardinality(rows("upvote"))
        /\ cnt.downvotes = Cardinality(rows("downvote"))

\* Two requests, one per worker, from a state that requests handled one at
\* a time reach: the empty table, or u1's upvote row on comment 1 left by
\* createVote (counters at 0, see SqlFieldArith).
InitialRows ==
    {{}, {[id |-> 1, userId |-> "u1", postId |-> Nil, commentId |-> 1,
           type |-> "upvote"]}}

InitPair ==
    /\ votes \in InitialRows
    /\ posts = [p \in PostIds |-> ZeroCounters]
    /\ comments = [c \in CommentIds |-> ZeroCounters]
    /\ nextVoteId = Cardinality(votes) + 1
    /\ last = [NoRequest EXCEPT !.votes0 = votes]
    /\ prev = NoRequest
    /\ inflight = [w \in Procs |-> Idle]
    /\ ui = [w \in Procs |-> NoComponent]
    /\ ForumInit

\* Each worker takes one request.
BeginOnce(w) == inflight[w].pc = "idle" /\ Begin(w)

NextPair ==
    \E w \in Procs :
        \/ BeginOnce(w)
        \/ Lookup(w)
        \/ InsertRow(w)
        \/ SelectById(w)
        \/ DeleteRow(w)
        \/ CounterStep(w)
        \/ SetType(w)

SpecPair == InitPair /\ [][NextPair]_vars

\* The database the pair started from (last is not written by the steps).
PairStart ==
    [votes |-> last.votes0, posts |-> last.posts0,
     comments |-> last.comments0,
     nextVoteId |-> Cardinality(last.votes0) + 1]

\* The database after worker w's request is handled alone from d.
AloneFrom(d, w) ==
    LET r == inflight[w]
        ex == CHOOSE e \in getVote(d, r.userId, r.postId, r.commentId) : TRUE
    IN  HandleVote(d, r.userId, r.postId, r.commentId, r.type, ex).db

\* Vote rows without their serial ids.
Strip(vs) ==
    {[userId |-> v.userId, postId |-> v.postId, commentId |-> v.commentId,
      type |-> v.type] : v \in vs}

\* The tables are those of running w's request and then x's.
SameAsInOrder(w, x) ==
    LET d == AloneFrom(AloneFrom(PairStart, w), x)
    IN  /\ Strip(votes) = Strip(d.votes)
        /\ posts = d.posts
        /\ comments = d.comments

\* C17: for two concurrent requests by different voters on the same target,
\* or on different targets, every interleaving ends with the same Vote rows
\* and counters as running the two one after the other in either order, and
\* the counters equal the per-direction row counts.
C17_IndependentRequestsCommute ==
    (BothDoneOverlapped /\ ~SameVoterAndTarget) =>
        /\ SameAsInOrder(1, 2)
        /\ SameAsInOrder(2, 1)
        /\ \A w \in Procs : CountersMatchRowsOf(w)

\* C18: for two concurrent requests by the same voter on the same target
\* that both observe the same existing vote, every interleaving ends with
\* counters equal to the per-direction counts of the remaining rows, and no
\* counter negative.
C18_SameRowRequestsConsistent ==
    (/\ BothDoneOverlapped
     /\ SameVoterAndTarget
     /\ \A w, x \in Procs : inflight[w].seen = inflight[x].seen
     /\ \A w \in Procs : inflight[w].seen # Nil) =>
        \A w \in Procs :
            /\ CountersMatchRowsOf(w)
            /\ TargetCounters(posts, comments, inflight[w].postId,
                              inflight[w].commentId).upvotes >= 0
            /\ TargetCounters(posts, comments, inflight[w].postId,
                              inflight[w].commentId).downvotes >= 0

\* ------------------------------------------------------------------------
\* The voting components of one signed-in voter
\* ------------------------------------------------------------------------

\* The signed-in voter and the post whose page shows both components.
Voter == "u1"
ShownPost == 1

\* Component 1 is a VotingSystem with itemType 'post', component 2 the
\* PostCard of the same post.
Kind(w) == IF w = 1 THEN "VotingSystem" ELSE "PostCard"

\* currentVote / userVote when no button is highlighted.
Null == "null"

\* A component as first rendered from the server's data: useState(userVote),
\* useState(initialUpvotes), useState(initialDownvotes)
\* (voting-system.tsx:32-34); useState(post.currentUserVote || null) and
\* the post's counts as props (post-card.tsx:61-65).
Mounted(w, d) ==
    LET mine == RowsOf(d.votes, Voter, ShownPost, Nil)
        shown == IF mine = {} THEN Null ELSE (CHOOSE v \in mine : TRUE).type
    IN  [kind |-> Kind(w), currentVote |-> shown,
         upvotes |-> d.posts[ShownPost].upvotes,
         downvotes |-> d.posts[ShownPost].downvotes,
         isPending |-> FALSE, toast |-> "", outcome |-> "",
         currentVote0 |-> shown,
         upvotes0 |-> d.posts[ShownPost].upvotes,
         downvotes0 |-> d.posts[ShownPost].downvotes]

\* throwIfResNotOk: apiRequest throws unless res.ok (firebase.ts:241-246).
ResOk(resp) == resp.status >= 200 /\ resp.status <= 299

\* res.json(undefined) sends an empty body, on which response.json() throws.
JsonThrows(resp) == resp = RespVote(NoVote)

\* Whether mutationFn resolves: VotingSystem awaits apiRequest and parses the
\* body (voting-system.tsx:45-46), PostCard only awaits apiRequest
\* (post-card.tsx:70).
mutationFnResolves(kind, resp) ==
    /\ ResOk(resp)
    /\ kind = "VotingSystem" => ~JsonThrows(resp)

\* onSuccess (voting-system.tsx:48-80, post-card.tsx:72-80).
onSuccess(c, type) ==
    LET newVote == IF c.currentVote = type THEN Null ELSE type
        up1 == IF c.currentVote = "upvote" THEN c.upvotes - 1 ELSE c.upvotes
        dn1 == IF c.currentVote = "upvote" THEN c.downvotes
               ELSE IF c.currentVote = "downvote" THEN c.downvotes - 1
               ELSE c.downvotes
        up2 == IF newVote = "upvote" THEN up1 + 1 ELSE up1
        dn2 == IF newVote = "upvote" THEN dn1
               ELSE IF newVote = "downvote" THEN dn1 + 1
               ELSE dn1
    IN  IF c.kind = "VotingSystem"
        THEN [c EXCEPT !.currentVote = newVote, !.upvotes = up2,
                       !.downvotes = dn2, !.outcome = "success"]
        ELSE [c EXCEPT !.currentVote = newVote, !.outcome = "success"]

\* onError with the local update applied as well.
onErrorOptimistic(c, type, resp) ==
    [onSuccess(c, type) EXCEPT
        !.toast = IF c.kind = "VotingSystem" THEN "Vote failed" ELSE "Error",
        !.outcome = "error"]

\* onError (voting-system.tsx:81-87, post-card.tsx:81-92): a toast only.
\* The voter stays signed in, so no reply is a 401 and PostCard's toast is
\* the one titled "Error".
onError(c, type, resp) ==
    [c EXCEPT
        !.toast = IF c.kind = "VotingSystem" THEN "Vote failed" ELSE "Error",
        !.outcome = "error"]

\* handleVote with the buttons never disabled.
handleVoteAlways(w) ==
    /\ nextVoteId <= MaxVoteId
    /\ \E t \in VoteTypes :
          inflight' = Arrived(w, Voter, ShownPost, Nil, t)
    /\ ui' = [ui EXCEPT ![w] =
                 [ui[w] EXCEPT !.isPending = TRUE, !.toast = "",
                               !.outcome = "",
                               !.currentVote0 = ui[w].currentVote,
                               !.upvotes0 = ui[w].upvotes,
                               !.downvotes0 = ui[w].downvotes]]
    /\ UNCHANGED <<votes, posts, comments, nextVoteId, last, prev,
                   forumVars>>

\* A click on a vote button: handleVote -> voteMutation.mutate({type})
\* (voting-system.tsx:90-92, post-card.tsx:114-121).  The buttons are
\* disabled while the mutation is pending.
handleVote(w) ==
    /\ ~ui[w].isPending
    /\ nextVoteId <= MaxVoteId
    /\ \E t \in VoteTypes :
          inflight' = Arrived(w, Voter, ShownPost, Nil, t)
    /\ ui' = [ui EXCEPT ![w] =
                 [ui[w] EXCEPT !.isPending = TRUE, !.toast = "",
                               !.outcome = "",
                               !.currentVote0 = ui[w].currentVote,
                               !.upvotes0 = ui[w].upvotes,
                               !.downvotes0 = ui[w].downvotes]]
    /\ UNCHANGED <<votes, posts, comments, nextVoteId, last, prev,
                   forumVars>>

\* The reply arrives and the mutation settles: onSuccess or onError.
Settle(w) ==
    LET c == ui[w]
        r == inflight[w]
        settled == IF mutationFnResolves(c.kind, r.resp)
                   THEN onSuccess(c, r.type)
                   ELSE onError(c, r.type, r.resp)
    IN  /\ c.isPending
        /\ r.pc = "done"
        /\ ui' = [ui EXCEPT ![w] = [settled EXCEPT !.isPending = FALSE]]
        /\ UNCHANGED <<votes, posts, comments, nextVoteId, last, prev,
                       inflight, forumVars>>

\* The page is rendered with no vote by the voter on the post, or with the
\* upvote row an earlier request of theirs left.
InitClient ==
    /\ votes \in {{}, {[id |-> 1, userId |-> Voter, postId |-> ShownPost,
                        commentId |-> Nil, type |-> "upvote"]}}
    /\ posts = [p \in PostIds |-> ZeroCounters]
    /\ comments = [c \in CommentIds |-> ZeroCounters]
    /\ nextVoteId = Cardinality(votes) + 1
    /\ last = NoRequest
    /\ prev = NoRequest
    /\ inflight = [w \in Procs |-> Idle]
    /\ ui = [w \in Procs |-> Mounted(w, Db)]
    /\ ForumInit

NextClient ==
    \E w \in Procs :
        \/ handleVote(w)
        \/ Lookup(w)
        \/ InsertRow(w)
        \/ SelectById(w)
        \/ DeleteRow(w)
        \/ CounterStep(w)
        \/ SetType(w)
        \/ Settle(w)

SpecClient == InitClient /\ [][NextClient]_vars

\* What a component displays: the highlighted vote and the two counts.
Shown(c) == <<c.currentVote, c.upvotes, c.downvotes>>
ShownAtClick(c) == <<c.currentVote0, c.upvotes0, c.downvotes0>>

\* C20: when a vote request fails, the component keeps its displayed counts
\* and highlighted vote as they were before the click and reports the error;
\* what it displays changes only when a successful reply settles, never
\* while the request is pending.
C20_FailedVoteKeepsDisplay ==
    /\ [](\A w \in Procs :
            /\ ui[w].isPending => Shown(ui[w]) = ShownAtClick(ui[w])
            /\ ui[w].outcome = "error" =>
                   /\ Shown(ui[w]) = ShownAtClick(ui[w])
                   /\ ui[w].toast # "")
    /\ [][\A w \in Procs :
            Shown(ui'[w]) # Shown(ui[w]) =>
                /\ ui[w].isPending
                /\ inflight[w].pc = "done"
                /\ mutationFnResolves(ui[w].kind, inflight[w].resp)]_vars

\* A component whose request was answered 500 has settled with a toast.
C20_Witness ==
    \E w \in Procs :
        /\ ui[w].outcome = "error"
        /\ inflight[w].resp = RespFailed
        /\ ui[w].toast # ""

\* ------------------------------------------------------------------------
\* Frame of a vote request
\* ------------------------------------------------------------------------

\* Rows the last request inserted, deleted, or rewrote (a rewritten row is
\* in both differences).
LastTouchedRows == (votes \ last.votes0) \cup (last.votes0 \ votes)

\* The row is a vote of the last request's voter on the target it named.
OnAddressed(v) ==
    /\ v.userId = last.userId
    /\ v.postId = last.postId
    /\ v.commentId = last.commentId

\* Counters of every target other than the one the last request named are
\* as before it.
OtherCountersKept ==
    /\ \A p \in PostIds : p # last.postId => posts[p] = last.posts0[p]
    /\ \A c \in CommentIds :
           c # last.commentId => comments[c] = last.comments0[c]

\* C21: a vote request addressed to target T by voter V never creates,
\* changes or deletes a Vote row of another target or another voter and
\* never changes another target's counters, also when it carries no post id
\* and no comment id.
C21_OnlyAddressedTargetTouched ==
    Authenticated =>
        /\ \A v \in LastTouchedRows : OnAddressed(v)
        /\ OtherCountersKept

\* Bodies by one signed-in caller that name a post, a comment, both or
\* neither: req.body is destructured without a check (routes.ts:190).
TargetInputs ==
    {<<"tok_u1", g[1], g[2], t>> :
        g \in {<<1, Nil>>, <<Nil, 1>>, <<1, 1>>, <<Nil, Nil>>},
        t \in VoteTypes}

AnyTarget == \E r \in TargetInputs : ApiVote(r[1], r[2], r[3], r[4])

NextTargets == AnyTarget

SpecTargets == InitIn /\ [][NextTargets]_vars

\* C22: every Vote row references exactly one target, a post or a comment,
\* never both and never neither.
C22_RowHasOneTarget ==
    \A v \in votes : (v.postId # Nil) # (v.commentId # Nil)

\* ------------------------------------------------------------------------
\* The voter of a request
\* ------------------------------------------------------------------------

\* A body without a userId field.
NoBodyUser == ""
BodyUsers == {NoBodyUser} \cup Users

\* The voter taken from the body when it names one.
reqUserIdFromBody(auth, bodyUserId) ==
    IF bodyUserId # NoBodyUser THEN bodyUserId ELSE auth.uid

\* const userId = req.firebaseUser.uid (routes.ts:189); the body's userId
\* is not among the destructured fields (routes.ts:190).
reqUserId(auth, bodyUserId) == auth.uid

NoRequestAs ==
    [userId |-> "", postId |-> Nil, commentId |-> Nil, type |-> "",
     arm |-> "", resp |-> RespNone,
     votes0 |-> {}, posts0 |-> [p \in PostIds |-> ZeroCounters],
     comments0 |-> [c \in CommentIds |-> ZeroCounters],
     token |-> NoToken, bodyUserId |-> NoBodyUser]

\* One whole request of a signed-in caller whose body may carry a userId.
ApiVoteAs(token, bodyUserId, postId, commentId, type) ==
    LET auth == verifyFirebaseToken(token)
        userId == reqUserId(auth, bodyUserId)
    IN  /\ auth.next
        /\ \A w \in Procs : inflight[w] = Idle
        /\ \E existing \in getVote(Db, userId, postId, commentId) :
              LET h == HandleVote(Db, userId, postId, commentId, type,
                                  existing)
              IN  /\ h.db.nextVoteId <= MaxVoteId + 1
                  /\ votes' = h.db.votes
                  /\ posts' = h.db.posts
                  /\ comments' = h.db.comments
                  /\ nextVoteId' = h.db.nextVoteId
                  /\ last' = [userId |-> userId, postId |-> postId,
                              commentId |-> commentId, type |-> type,
                              arm |-> h.arm, resp |-> h.resp,
                              votes0 |-> votes, posts0 |-> posts,
                              comments0 |-> comments,
                              token |-> token, bodyUserId |-> bodyUserId]
        /\ UNCHANGED <<prev, inflight, ui, forumVars>>

VoteAs ==
    \E k \in ValidTokens, b \in BodyUsers, g \in GoodTargets,
       t \in VoteTypes :
        ApiVoteAs(k, b, g[1], g[2], t)

InitAs ==
    /\ votes = {}
    /\ posts = [p \in PostIds |-> ZeroCounters]
    /\ comments = [c \in CommentIds |-> ZeroCounters]
    /\ nextVoteId = 1
    /\ last = NoRequestAs
    /\ prev = NoRequest
    /\ inflight = [w \in Procs |-> Idle]
    /\ ui = [w \in Procs |-> NoComponent]
    /\ ForumInit

NextAs == VoteAs

SpecAs == InitAs /\ [][NextAs]_vars

\* Rows of voter u counted per target and direction.
Contribution(vs, u) ==
    [g \in GoodTargets |->
        [t \in VoteTypes |->
            Cardinality({v \in vs : /\ v.userId = u
                                    /\ v.postId = g[1]
                                    /\ v.commentId = g[2]
                                    /\ v.type = t})]]

\* C23: the voter of every row created through POST /api/votes is the
\* authenticated caller's uid, never a value from the request body; a
\* request by caller A never changes or deletes a row of another user B and
\* never changes B's rows counted per target and direction.
C23_VoterIsCaller ==
    Handled =>
        /\ \A v \in LastTouchedRows : v.userId = TokenUid(last.token)
        /\ \A u \in Users \ {TokenUid(last.token)} :
               /\ {v \in votes : v.userId = u} =
                      {v \in last.votes0 : v.userId = u}
               /\ Contribution(votes, u) = Contribution(last.votes0, u)

\* A caller whose body names the other user has created a row.
C23_Witness ==
    /\ Handled
    /\ last.arm = "create"
    /\ last.bodyUserId \in Users \ {TokenUid(last.token)}
    /\ \E v \in votes \ last.votes0 : v.userId = TokenUid(last.token)
    /\ \E v \in last.votes0 : v.userId = last.bodyUserId

\* ------------------------------------------------------------------------
\* updateVote and the total of a target's counters
\* ------------------------------------------------------------------------

\* upvotes + downvotes of every post and comment is the same in both
\* pairs of tables.
SameTotals(ps, cs, ps0, cs0) ==
    /\ \A p \in DOMAIN ps :
           ps[p].upvotes + ps[p].downvotes =
               ps0[p].upvotes + ps0[p].downvotes
    /\ \A c \in DOMAIN cs :
           cs[c].upvotes + cs[c].downvotes =
               cs0[c].upvotes + cs0[c].downvotes

\* C24: updateVote(id, type) leaves upvotes + downvotes of the vote's target
\* unchanged for every stored type and every requested type, also when the
\* stored type maps to the same counter as the requested one.
C24_UpdateVoteKeepsTotal ==
    (Authenticated /\ last.arm = "switch") =>
        SameTotals(posts, comments, last.posts0, last.comments0)

\* updateVote ran on a downvote row with a requested type that is neither
\* upvote nor downvote: both computed keys are "downvotes".
C24_Witness ==
    /\ Authenticated
    /\ last.arm = "switch"
    /\ last.type \notin VoteTypes
    /\ \E v \in LastRowsBefore :
           /\ v.type = "downvote"
           /\ FieldOf(v.type) = FieldOf(last.type)

\* ------------------------------------------------------------------------
\* One request per component at a time
\* ------------------------------------------------------------------------

\* Component w's request has just reached the server.
Sent(w) == inflight[w].pc # "lookup" /\ inflight'[w].pc = "lookup"

MaxCommentId == 3

\* The tables createComment and deleteComment touch, as one value.
CommentDb ==
    [rows |-> commentRows, count |-> commentCount, next |-> nextCommentId,
     counters |-> comments]

NoComment == [id |-> Nil, postId |-> Nil]

\* sql`${posts.commentCount} + 1`: the operand is the column object, so the
\* statement is SET "comment_count" = "posts"."comment_count" + 1.
SqlColumnArith(value, delta) == value + delta

\* db.update(posts).set({ commentCount: ... }).where(eq(posts.id, postId))
DbUpdateCommentCount(d, postId, delta) ==
    IF postId \in DOMAIN d.count
    THEN [d EXCEPT !.count[postId] = SqlColumnArith(@, delta)]
    ELSE d

\* createComment (storage.ts:386-398): the INSERT, rejected when post_id
\* references no post (schema.ts:104), then the count UPDATE when the new
\* row has a postId.
createComment(d, postId) ==
    LET row == [id |-> d.next, postId |-> postId]
        fkOk == postId = Nil \/ postId \in DOMAIN d.count
        ins == [d EXCEPT !.rows = @ \cup {row}, !.next = @ + 1,
                         !.counters =
                             [c \in DOMAIN @ \cup {row.id} |->
                                 IF c \in DOMAIN @ THEN @[c]
                                 ELSE ZeroCounters]]
    IN  IF ~fkOk
        THEN [threw |-> TRUE, ret |-> NoComment,
              db |-> [d EXCEPT !.next = @ + 1]]
        ELSE [threw |-> FALSE, ret |-> row,
              db |-> IF Truthy(row.postId)
                     THEN DbUpdateCommentCount(ins, row.postId, 1)
                     ELSE ins]

\* deleteComment with the count UPDATE issued before the DELETE.
deleteCommentCountFirst(d, id, vs) ==
    LET found == {r \in d.rows : r.id = id}
        comment == IF found = {} THEN NoComment ELSE CHOOSE r \in found : TRUE
        referenced == \E v \in vs : v.commentId = id
        counted == IF Truthy(comment.postId)
                   THEN DbUpdateCommentCount(d, comment.postId, -1)
                   ELSE d
        del == [counted EXCEPT
                   !.rows = @ \ {comment},
                   !.counters = [c \in DOMAIN @ \ {id} |-> @[c]]]
    IN  IF comment = NoComment
        THEN [threw |-> FALSE, found |-> FALSE, db |-> d]
        ELSE IF referenced
        THEN [threw |-> TRUE, found |-> TRUE, db |-> counted]
        ELSE [threw |-> FALSE, found |-> TRUE, db |-> del]

\* deleteComment (storage.ts:409-422): the SELECT by id; when a row is
\* found, the DELETE, rejected while a vote row references the comment
\* (schema.ts:119), then the count UPDATE when the row has a postId.
deleteComment(d, id, vs) ==
    LET found == {r \in d.rows : r.id = id}
        comment == IF found = {} THEN NoComment ELSE CHOOSE r \in found : TRUE
        referenced == \E v \in vs : v.commentId = id
        del == [d EXCEPT !.rows = @ \ {comment},
                         !.counters = [c \in DOMAIN @ \ {id} |-> @[c]]]
    IN  IF comment = NoComment
        THEN [threw |-> FALSE, found |-> FALSE, db |-> d]
        ELSE IF referenced
        THEN [threw |-> TRUE, found |-> TRUE, db |-> d]
        ELSE [threw |-> FALSE, found |-> TRUE,
              db |-> IF Truthy(comment.postId)
                     THEN DbUpdateCommentCount(del, comment.postId, -1)
                     ELSE del]

SetCommentDb(d) ==
    /\ commentRows' = d.rows
    /\ commentCount' = d.count
    /\ nextCommentId' = d.next
    /\ comments' = d.counters

\* One createComment call.
CreateComment ==
    \E postId \in PostIds \cup {Nil, MissingId} :
        LET r == createComment(CommentDb, postId)
        IN  /\ nextCommentId <= MaxCommentId
            /\ SetCommentDb(r.db)
            /\ last' = [arm |-> "createComment", postId |-> postId,
                        commentId |-> r.ret.id, threw |-> r.threw,
                        found |-> FALSE,
                        rows0 |-> commentRows, count0 |-> commentCount]
            /\ UNCHANGED <<votes, posts, nextVoteId, prev, inflight, ui,
                           groupMembers, memberCount>>

\* One deleteComment call.
DeleteComment ==
    \E id \in 1..MaxCommentId :
        LET r == deleteComment(CommentDb, id, votes)
        IN  /\ SetCommentDb(r.db)
            /\ last' = [arm |-> "deleteComment", postId |-> Nil,
                        commentId |-> id, threw |-> r.threw,
                        found |-> r.found,
                        rows0 |-> commentRows, count0 |-> commentCount]
            /\ UNCHANGED <<votes, posts, nextVoteId, prev, inflight, ui,
                           groupMembers, memberCount>>

\* Comment 1 on post 1, with or without u1's upvote row on it.
InitComments ==
    /\ votes \in InitialRows
    /\ posts = [p \in PostIds |-> ZeroCounters]
    /\ comments = [c \in CommentIds |-> ZeroCounters]
    /\ nextVoteId = Cardinality(votes) + 1
    /\ last = NoRequest
    /\ prev = NoRequest
    /\ inflight = [w \in Procs |-> Idle]
    /\ ui = [w \in Procs |-> NoComponent]
    /\ ForumInit

NextComments == CreateComment \/ DeleteComment

SpecComments == InitComments /\ [][NextComments]_vars

\* C27: after any sequence of createComment and deleteComment calls handled
\* one at a time, each post's commentCount equals the number of comment rows
\* whose postId is that post, and deleteComment on an id with no comment row
\* changes nothing.
C27_CommentCountEqualsRows ==
    /\ \A p \in PostIds :
           commentCount[p] = Cardinality({r \in commentRows : r.postId = p})
    /\ (last.arm = "deleteComment" /\ ~last.found) =>
           /\ commentRows = last.rows0
           /\ commentCount = last.count0

\* A deleteComment has removed a counted comment, and one on a missing id
\* has run.
C27_Witness ==
    /\ last.arm = "deleteComment"
    /\ ~last.found
    /\ \E p \in PostIds : commentCount[p] > 0
    /\ nextCommentId > Cardinality(commentRows) + 1

\* ------------------------------------------------------------------------
\* Group membership and groups.member_count
\* ------------------------------------------------------------------------

\* Bound on how far below zero member_count is followed.
MaxDeficit == 3

GroupDb == [members |-> groupMembers, count |-> memberCount]

\* sql`member_count + 1`: the column is named in the statement text.
SqlTextArith(value, delta) == value + delta

\* db.update(groups).set({ memberCount: ... }).where(eq(groups.id, groupId))
DbUpdateMemberCount(d, groupId, delta) ==
    IF groupId \in DOMAIN d.count
    THEN [d EXCEPT !.count[groupId] = SqlTextArith(@, delta)]
    ELSE d

\* joinGroup (storage.ts:592-600): the INSERT, rejected by the primary key
\* (groupId, userId) or by the reference to groups.id (schema.ts:72-77),
\* then the count UPDATE.
joinGroup(d, groupId, userId) ==
    LET row == [groupId |-> groupId, userId |-> userId]
    IN  IF row \in d.members \/ groupId \notin DOMAIN d.count
        THEN [threw |-> TRUE, db |-> d]
        ELSE [threw |-> FALSE,
              db |-> DbUpdateMemberCount(
                         [d EXCEPT !.members = @ \cup {row}], groupId, 1)]

\* leaveGroup (storage.ts:602-612): the DELETE of the matching rows, then
\* the count UPDATE, whether or not a row was deleted.
leaveGroup(d, groupId, userId) ==
    LET row == [groupId |-> groupId, userId |-> userId]
    IN  [threw |-> FALSE,
         db |-> DbUpdateMemberCount(
                    [d EXCEPT !.members = @ \ {row}], groupId, -1)]

RespJoined == [status |-> 200, body |-> "Successfully joined group",
               type |-> ""]
RespJoinFailed == [status |-> 500, body |-> "Failed to join group",
                   type |-> ""]
RespLeft == [status |-> 200, body |-> "Successfully left group", type |-> ""]

\* POST /api/groups/:id/join (routes.ts:313-327).
HandleJoin(d, token, groupId) ==
    LET auth == verifyFirebaseToken(token)
        r == joinGroup(d, groupId, auth.uid)
    IN  IF ~auth.next
        THEN [arm |-> "join-unauthorized", db |-> d,
              resp |-> RespUnauthorized]
        ELSE [arm |-> "join", db |-> r.db,
              resp |-> IF r.threw THEN RespJoinFailed ELSE RespJoined]

\* POST /api/groups/:id/leave (routes.ts:329-343).
HandleLeave(d, token, groupId) ==
    LET auth == verifyFirebaseToken(token)
        r == leaveGroup(d, groupId, auth.uid)
    IN  IF ~auth.next
        THEN [arm |-> "leave-unauthorized", db |-> d,
              resp |-> RespUnauthorized]
        ELSE [arm |-> "leave", db |-> r.db, resp |-> RespLeft]

GroupRequest(h, token, groupId) ==
    /\ groupMembers' = h.db.members
    /\ memberCount' = h.db.count
    /\ last' = [arm |-> h.arm, token |-> token, groupId |-> groupId,
                resp |-> h.resp, members0 |-> groupMembers,
                count0 |-> memberCount]
    /\ UNCHANGED <<votes, posts, comments, nextVoteId, prev, inflight, ui,
                   commentRows, commentCount, nextCommentId>>

JoinGroup ==
    \E k \in ValidTokens \cup {BadToken}, g \in GroupIds \cup {MissingId} :
        GroupRequest(HandleJoin(GroupDb, k, g), k, g)

LeaveGroup ==
    \E k \in ValidTokens \cup {BadToken}, g \in GroupIds \cup {MissingId} :
        /\ \A x \in GroupIds : memberCount[x] > -MaxDeficit
        /\ GroupRequest(HandleLeave(GroupDb, k, g), k, g)

NextGroups == JoinGroup \/ LeaveGroup

SpecGroups == Init /\ [][NextGroups]_vars

\* C28: after any sequence of joinGroup and leaveGroup calls, including a
\* join by a member and a leave by a non-member, each group's memberCount
\* equals the number of group_members rows of the group and is never
\* negative.
C28_MemberCountEqualsRows ==
    \A g \in GroupIds :
        /\ memberCount[g] =
               Cardinality({m \in groupMembers : m.groupId = g})
        /\ memberCount[g] >= 0

\* ------------------------------------------------------------------------
\* PUT and DELETE /api/posts/:id
\* ------------------------------------------------------------------------

\* A vote row or a comment row references the post (schema.ts:104, 118).
PostReferenced(d, rows, id) ==
    \/ \E v \in d.votes : v.postId = id
    \/ \E r \in rows : r.postId = id

\* deletePost (storage.ts:331-333): the DELETE, rejected while a row
\* references the post.
deletePost(d, rows, id) ==
    IF PostReferenced(d, rows, id)
    THEN [threw |-> TRUE, db |-> d]
    ELSE [threw |-> FALSE,
          db |-> [d EXCEPT !.posts = [p \in DOMAIN @ \ {id} |-> @[p]]]]

RespDeleted ==
    [status |-> 200, body |-> "Post deleted successfully", type |-> ""]
RespDeleteForbidden ==
    [status |-> 403, body |-> "Not authorized to delete this post",
     type |-> ""]
RespDeleteFailed ==
    [status |-> 500, body |-> "Failed to delete post", type |-> ""]

\* The DELETE handler with no check of the post's author.
HandleDeletePostAnyone(d, rows, token, id) ==
    LET auth == verifyFirebaseToken(token)
        r == deletePost(d, rows, id)
    IN  IF ~auth.next
        THEN [arm |-> "delete-unauthorized", db |-> d,
              resp |-> RespUnauthorized]
        ELSE IF ~PostExists(d, id)
        THEN [arm |-> "delete-notfound", db |-> d, resp |-> RespNotFound]
        ELSE [arm |-> "delete-deleted", db |-> r.db,
              resp |-> IF r.threw THEN RespDeleteFailed ELSE RespDeleted]

\* The handler of DELETE /api/posts/:id behind verifyFirebaseToken
\* (routes.ts:115-140).
HandleDeletePost(d, rows, token, id) ==
    LET auth == verifyFirebaseToken(token)
        r == deletePost(d, rows, id)
    IN  IF ~auth.next
        THEN [arm |-> "delete-unauthorized", db |-> d,
              resp |-> RespUnauthorized]
        ELSE IF ~PostExists(d, id)
        THEN [arm |-> "delete-notfound", db |-> d, resp |-> RespNotFound]
        ELSE IF PostAuthor[id] # auth.uid
        THEN [arm |-> "delete-forbidden", db |-> d,
              resp |-> RespDeleteForbidden]
        ELSE [arm |-> "delete-deleted", db |-> r.db,
              resp |-> IF r.threw THEN RespDeleteFailed ELSE RespDeleted]

DeletePost ==
    \E token \in ValidTokens \cup {BadToken},
       id \in PostIds \cup {MissingId} :
        LET h == HandleDeletePost(Db, commentRows, token, id) IN
        /\ \A w \in Procs : inflight[w] = Idle
        /\ posts' = h.db.posts
        /\ last' = [userId |-> verifyFirebaseToken(token).uid,
                    postId |-> id, commentId |-> Nil, type |-> "",
                    arm |-> h.arm, resp |-> h.resp,
                    votes0 |-> votes, posts0 |-> posts,
                    comments0 |-> comments]
        /\ prev' = NoRequest
        /\ UNCHANGED <<votes, comments, nextVoteId, inflight, ui, forumVars>>

\* Post 1 carries comment 1; post 2 has no comment and either no vote or
\* the upvote row an earlier request of u1 left on it.
InitPostOps ==
    /\ votes \in {{}, {[id |-> 1, userId |-> "u1", postId |-> 2,
                        commentId |-> Nil, type |-> "upvote"]}}
    /\ posts = [p \in PostIds |-> ZeroCounters]
    /\ comments = [c \in CommentIds |-> ZeroCounters]
    /\ nextVoteId = Cardinality(votes) + 1
    /\ last = NoRequest
    /\ prev = NoRequest
    /\ inflight = [w \in Procs |-> Idle]
    /\ ui = [w \in Procs |-> NoComponent]
    /\ ForumInit

\* A post can be deleted once its comments are.
NextPostOps == PutPost \/ DeletePost \/ DeleteComment

SpecPostOps == InitPostOps /\ [][NextPostOps]_vars

\* The last request was a PUT or DELETE on a post by a signed-in caller.
PostRequest ==
    /\ last.arm \in {"put-notfound", "put-forbidden", "put-updated",
                     "delete-notfound", "delete-forbidden",
                     "delete-deleted"}
    /\ last.userId \in Users

\* C29: PUT and DELETE on /api/posts/:id by an authenticated caller who is
\* not the post's author answer 403 and leave the post unchanged; on an id
\* of no post they answer 404 and change nothing; only the author's request
\* updates or deletes the post.
C29_OnlyAuthorChangesPost ==
    PostRequest =>
        /\ last.postId \notin DOMAIN last.posts0 =>
               /\ last.resp.status = 404
               /\ posts = last.posts0
        /\ (/\ last.postId \in DOMAIN last.posts0
            /\ PostAuthor[last.postId] # last.userId) =>
               /\ last.resp.status = 403
               /\ posts = last.posts0
        /\ posts # last.posts0 =>
               /\ last.postId \in DOMAIN last.posts0
               /\ PostAuthor[last.postId] = last.userId
               /\ \A p \in DOMAIN last.posts0 \ {last.postId} :
                      /\ p \in DOMAIN posts
                      /\ posts[p] = last.posts0[p]

\* A DELETE by a caller who is not the author of an existing post was
\* answered 403.
C29_Witness ==
    /\ last.arm = "delete-forbidden"
    /\ last.postId \in DOMAIN posts
    /\ PostAuthor[last.postId] # last.userId
    /\ last.resp.status = 403

====
